---- MODULE Spec2Model ----
(***************************************************************************)
(* Model of the tweet-watcher monitor loop (src/main.py): one process that *)
(* polls a feed, selects the newest post, classifies it, notifies and      *)
(* saves the id of the post as its cursor in a one-record state file.      *)
(*                                                                         *)
(* Post ids are modelled as the integers 1..MaxId and None as 0.  The      *)
(* feed assigns ids in creation order, so created_at grows with the id.    *)
(* The feed client, the language model and the notification transport are  *)
(* the environment: each call returns any result its interface allows.  A  *)
(* fetch may return any list of posts, also posts older than since_id; the *)
(* history variables fetch_ok and run_ok record whether it ever did.  The  *)
(* process may be killed at any point and be started again.                *)
(***************************************************************************)
EXTENDS Integers, Sequences, FiniteSets, TLC

\* ---------------------------------------------------------------- bounds
MaxId == 3          \* number of distinct posts the feed can hold
MaxFetch == 2       \* longest list one fetch returns
MaxRuns == 2        \* process starts (1 + restarts by the supervisor)
MaxElems == 3       \* elements of a markup string given to the extractor
MaxText == 2        \* characters of the text of one element

\* ------------------------------------------------------------- constants
CHECK_INTERVAL == 300
LOOKBACK_DAYS == 1
None == 0

PostIds == 1..MaxId

\* --------------------------------------------------------------- markup
\* A markup string is a sequence of elements; an element has a tag and the
\* text it encloses, a sequence of characters.
Space == " "
Newline == "\n"

Elem(tag, text) == [tag |-> tag, text |-> text]

\* content of the post with the given id (posts are immutable)
ContentOf(id) ==
  CASE id % 3 = 1 -> << Elem("p", <<Space, "a", Space>>), Elem("p", <<>>),
                        Elem("p", <<"b">>) >>
    [] id % 3 = 2 -> << Elem("div", <<"a">>), Elem("p", <<Space>>) >>
    [] OTHER      -> << Elem("p", <<"b">>) >>

CreatedAt(id) == 10 * id

Post(id) == [id |-> id, created_at |-> CreatedAt(id), content |-> ContentOf(id)]

\* str.strip(): remove leading and trailing whitespace
RECURSIVE LStrip(_)
LStrip(t) == IF t # <<>> /\ Head(t) \in {Space, Newline} THEN LStrip(Tail(t)) ELSE t

RECURSIVE RStrip(_)
RStrip(t) ==
  IF t # <<>> /\ t[Len(t)] \in {Space, Newline}
  THEN RStrip(SubSeq(t, 1, Len(t) - 1)) ELSE t

Strip(t) == RStrip(LStrip(t))

IsParagraph(e) == e.tag = "p"
NonEmpty(t) == t # <<>>

\* texts of the <p> elements, stripped, empty ones dropped
RECURSIVE StripAll(_)
StripAll(es) ==
  IF es = <<>> THEN <<>> ELSE <<Strip(Head(es).text)>> \o StripAll(Tail(es))

\* a slip of line 43: the empty paragraphs are kept
extract_paragraph_text_unfiltered(html_string) ==
  StripAll(SelectSeq(html_string, IsParagraph))

extract_paragraph_text(html_string) ==
  SelectSeq(StripAll(SelectSeq(html_string, IsParagraph)), NonEmpty)

\* "\n".join(list)
RECURSIVE Join(_)
Join(l) ==
  IF l = <<>> THEN <<>>
  ELSE IF Len(l) = 1 THEN l[1]
  ELSE l[1] \o <<Newline>> \o Join(Tail(l))

\* ------------------------------------------------------------ state file
\* a slip of line 111: the record is written under another key
JsonDumpOtherKey(post_id) == << "{", "post_id", ":", post_id, "}" >>

\* json.dump({"last_post_id": post_id}, f): the record as a token sequence
JsonDump(post_id) == << "{", "last_post_id", ":", post_id, "}" >>

NoFile == [exists |-> FALSE, data |-> <<>>]
FileWith(d) == [exists |-> TRUE, data |-> d]

\* json.load succeeds only on a complete object
Parses(d) == Len(d) = 5 /\ d[1] = "{" /\ d[3] = ":" /\ d[5] = "}"

\* data.get("last_post_id") of the parsed object
JsonGet(d) == IF d[2] = "last_post_id" THEN d[4] ELSE None

\* proper prefixes of a record: what an interrupted write can leave
Prefixes(d) == { SubSeq(d, 1, n) : n \in 0..(Len(d) - 1) }

\* ----------------------------------------------------------- classifier
\* replies of the language model, as character sequences
Responses == { <<"Y", "e", "s">>, <<"N", "o">>, <<"y", "e", "s">> }
ErrorReply == <<"E", "r", "r", "o", "r">>

StartsWith(s, prefix) ==
  Len(s) >= Len(prefix) /\ SubSeq(s, 1, Len(prefix)) = prefix

\* ----------------------------------------------------------------- sort
\* list.sort(key=created_at, reverse=True): stable, newest first
RECURSIVE InsertDesc(_, _)
InsertDesc(x, s) ==
  IF s = <<>> THEN <<x>>
  ELSE IF Head(s).created_at >= x.created_at
       THEN <<Head(s)>> \o InsertDesc(x, Tail(s))
       ELSE <<x>> \o s

\* a slip of line 142: the list is left in the order of the fetch
Unsorted(s) == s

RECURSIVE SortNewestFirst(_)
SortNewestFirst(s) ==
  IF s = <<>> THEN <<>>
  ELSE InsertDesc(s[Len(s)], SortNewestFirst(SubSeq(s, 1, Len(s) - 1)))

\* ---------------------------------------------------------- environment
\* lists of distinct posts a fetch can return
RECURSIVE IdLists(_)
IdLists(n) ==
  IF n = 0 THEN { <<>> }
  ELSE LET shorter == IdLists(n - 1)
       IN  shorter \cup { Append(l, i) : l \in { m \in shorter : Len(m) = n - 1 },
                                         i \in PostIds }

Distinct(l) == \A i, j \in 1..Len(l) : i # j => l[i] # l[j]

FetchResults ==
  { [i \in 1..Len(l) |-> Post(l[i])] : l \in { m \in IdLists(MaxFetch) : Distinct(m) } }

\* the fetch honoured since_id: nothing older than the cursor came back
Honours(ps, since_id) ==
  since_id = None \/ \A i \in 1..Len(ps) : ps[i].id >= since_id

\* the fetch returned only posts strictly after since_id
StrictlyAfter(ps, since_id) ==
  since_id = None \/ \A i \in 1..Len(ps) : ps[i].id > since_id

\* the ids of a fetched list other than its newest post
NotNewest(ps) ==
  { ps[i].id : i \in { j \in 1..Len(ps) :
                         \E k \in 1..Len(ps) : ps[k].created_at > ps[j].created_at } }

\* ---------------------------------------------------------------- state
VARIABLES
  pc,             \* position of the process in main()
  last_post_id,   \* main's local: the in-memory cursor
  file,           \* LAST_POST_FILE on disk
  request,        \* arguments of the last pull_statuses call
  posts,          \* main's local: the list the fetch returned
  newest_post,    \* main's local: posts[0] after the sort
  paragraph_texts, \* the list extract_paragraph_text returned
  content,        \* main's local: joined paragraph text
  analysis,       \* main's locals could_impact_market, analysis
  slept,          \* seconds of the sleep in progress
  outcome,        \* what the current cycle did last (its last log line)
  notified,       \* ids send_notification was called for in this run
  classified,     \* ids analyze_with_llm was called for in this run
  runs,           \* number of process starts so far
  loads,          \* get_last_post_id calls of this run (0, 1, more)
  fetch_ok,       \* history: every fetch so far honoured since_id
  run_ok,         \* history: every fetch of this run honoured since_id
  run_strict,     \* history: every since_id fetch of this run was strictly newer
  dropped,        \* history: ids a strict run fetched that were not the newest
  handled,        \* history: ids whose extract/classify/notify steps are over
  persisted,      \* history: ids a completed save wrote to the file
  inflight        \* history: id selected but not saved when the process died

vars == << pc, last_post_id, file, request, posts, newest_post,
           paragraph_texts, content,
           analysis, slept, outcome, notified, classified, runs, loads,
           fetch_ok, run_ok, run_strict, dropped, handled, persisted,
           inflight >>

locals == << posts, newest_post, paragraph_texts, content, analysis >>
counters == << notified, classified >>
history == << fetch_ok, run_ok, run_strict, dropped, handled, persisted,
             inflight >>

NoTime == [bounded |-> FALSE, days_before_now |-> 0]
NoRequest == [since_id |-> None, created_after |-> NoTime]
NoPost == [id |-> None, created_at |-> 0, content |-> <<>>]
NoAnalysis == [could_impact_market |-> FALSE, response |-> <<>>]

LoopPcs == { "fetch", "select", "extract", "analyze", "notify",
             "save", "save_write", "assign", "sleep" }

Init ==
  /\ pc = "start"
  /\ last_post_id = None
  /\ file = NoFile
  /\ request = NoRequest
  /\ posts = <<>>
  /\ newest_post = NoPost
  /\ paragraph_texts = <<>>
  /\ content = <<>>
  /\ analysis = NoAnalysis
  /\ slept = 0
  /\ outcome = "none"
  /\ notified = {}
  /\ classified = {}
  /\ runs = 1
  /\ loads = 0
  /\ fetch_ok = TRUE
  /\ run_ok = TRUE
  /\ run_strict = TRUE
  /\ dropped = {}
  /\ handled = {}
  /\ persisted = {}
  /\ inflight = None

\* --------------------------------------------------------------- startup
\* get_last_post_id(): json.load raises on anything but a complete record
get_last_post_id_raises == file.exists /\ ~Parses(file.data)
\* a slip of lines 117-121: the file is never read
get_last_post_id_cold == None

get_last_post_id == IF file.exists THEN JsonGet(file.data) ELSE None

\* one more call of get_last_post_id: none, one, more than one
CountLoad(n) == IF n < 2 THEN n + 1 ELSE 2

\* a slip of line 129: a file that cannot be loaded counts as no cursor
StartColdOnCorrupt ==
  /\ pc = "start"
  /\ \/ /\ last_post_id' = IF get_last_post_id_raises THEN None
                           ELSE get_last_post_id
        /\ loads' = CountLoad(loads)
        /\ pc' = "fetch"
        /\ outcome' = "none"
     \/ /\ pc' = "terminated"
        /\ outcome' = "pull_failed"
        /\ UNCHANGED << last_post_id, loads >>
  /\ inflight' = None
  /\ UNCHANGED << file, request, locals, slept, counters, runs,
                  fetch_ok, run_ok, run_strict, dropped, handled, persisted >>

\* main, lines 125-130: pull the model, then load the cursor
Start ==
  /\ pc = "start"
  /\ \/ /\ ~get_last_post_id_raises
        /\ last_post_id' = get_last_post_id
        /\ loads' = CountLoad(loads)
        /\ pc' = "fetch"
        /\ outcome' = "none"
     \/ /\ get_last_post_id_raises
        /\ loads' = CountLoad(loads)
        /\ pc' = "terminated"
        /\ outcome' = "load_failed"
        /\ UNCHANGED last_post_id
     \/ /\ pc' = "terminated"          \* ollama.pull raised
        /\ outcome' = "pull_failed"
        /\ UNCHANGED << last_post_id, loads >>
  /\ inflight' = None
  /\ UNCHANGED << file, request, locals, slept, counters, runs,
                  fetch_ok, run_ok, run_strict, dropped, handled, persisted >>

\* ------------------------------------------------------------ the cycle
\* a slip of lines 51-53: created_after is left None
RequestForUnbounded(since_id) == [since_id |-> since_id, created_after |-> NoTime]

\* a slip of line 56: since_id is not passed, every fetch is a cold one
RequestForNoSince(since_id) ==
  [ since_id |-> None,
    created_after |-> [bounded |-> TRUE, days_before_now |-> LOOKBACK_DAYS] ]

\* the arguments get_latest_posts passes to pull_statuses
RequestFor(since_id) ==
  [ since_id |-> since_id,
    created_after |-> IF since_id = None
                      THEN [bounded |-> TRUE, days_before_now |-> LOOKBACK_DAYS]
                      ELSE NoTime ]

\* time.sleep(CHECK_INTERVAL)
GoSleep ==
  /\ pc' = "sleep"
  /\ slept' = CHECK_INTERVAL

\* a slip of lines 60-62: the exception of the fetch is not caught
FetchRaises ==
  /\ pc = "fetch"
  /\ request' = RequestFor(last_post_id)
  /\ \/ /\ posts' = <<>>
        /\ outcome' = "fetch_failed"
        /\ pc' = "terminated"
        /\ UNCHANGED << slept, fetch_ok, run_ok, run_strict, dropped >>
     \/ \E result \in FetchResults :
          /\ posts' = result
          /\ fetch_ok' = (fetch_ok /\ Honours(result, last_post_id))
          /\ run_ok' = (run_ok /\ Honours(result, last_post_id))
          /\ run_strict' = (run_strict /\ StrictlyAfter(result, request'.since_id))
          /\ dropped' = IF run_strict' THEN dropped \cup NotNewest(result) ELSE {}
          /\ IF result = <<>>
             THEN outcome' = "no_posts" /\ GoSleep
             ELSE outcome' = "fetched" /\ pc' = "select" /\ UNCHANGED slept
  /\ UNCHANGED << last_post_id, file, newest_post, paragraph_texts, content,
                  analysis, counters, runs, loads, handled, persisted, inflight >>

\* lines 134-139 with get_latest_posts: an exception gives the empty list
Fetch ==
  /\ pc = "fetch"
  /\ request' = RequestFor(last_post_id)
  /\ \/ /\ posts' = <<>>                       \* except Exception: return []
        /\ outcome' = "fetch_failed"
        /\ GoSleep
        /\ UNCHANGED << fetch_ok, run_ok, run_strict, dropped >>
     \/ \E result \in FetchResults :
          /\ posts' = result
          /\ fetch_ok' = (fetch_ok /\ Honours(result, last_post_id))
          /\ run_ok' = (run_ok /\ Honours(result, last_post_id))
          /\ run_strict' = (run_strict /\ StrictlyAfter(result, request'.since_id))
          /\ dropped' = IF run_strict' THEN dropped \cup NotNewest(result) ELSE {}
          /\ IF result = <<>>
             THEN outcome' = "no_posts" /\ GoSleep
             ELSE outcome' = "fetched" /\ pc' = "select" /\ UNCHANGED slept
  /\ UNCHANGED << last_post_id, file, newest_post, paragraph_texts, content,
                  analysis, counters, runs, loads, handled, persisted, inflight >>

\* a slip of lines 145-149: the guard on the cursor is missing
SelectNoGuard ==
  /\ pc = "select"
  /\ posts' = SortNewestFirst(posts)
  /\ newest_post' = posts'[1]
  /\ outcome' = "new_post"
  /\ pc' = "extract"
  /\ UNCHANGED << last_post_id, file, request, paragraph_texts, content,
                  analysis, slept, counters, runs, loads, history >>

\* a slip of lines 146-149: a seen post skips the analysis but is saved again
SelectSeenIsSaved ==
  /\ pc = "select"
  /\ posts' = SortNewestFirst(posts)
  /\ newest_post' = posts'[1]
  /\ IF newest_post'.id = last_post_id
     THEN outcome' = "seen" /\ pc' = "save"
     ELSE outcome' = "new_post" /\ pc' = "extract"
  /\ UNCHANGED << last_post_id, file, request, paragraph_texts, content,
                  analysis, slept, counters, runs, loads, history >>

\* lines 141-151: sort, take the first, skip it when it is the cursor
Select ==
  /\ pc = "select"
  /\ posts' = SortNewestFirst(posts)
  /\ newest_post' = posts'[1]
  /\ IF newest_post'.id = last_post_id
     THEN outcome' = "seen" /\ GoSleep
     ELSE outcome' = "new_post" /\ pc' = "extract" /\ UNCHANGED slept
  /\ UNCHANGED << last_post_id, file, request, paragraph_texts, content,
                  analysis, counters, runs, loads, history >>

\* a slip of line 153: the analysis runs on empty content too
ExtractNoSkip ==
  /\ pc = "extract"
  /\ paragraph_texts' = extract_paragraph_text(newest_post.content)
  /\ content' = Join(paragraph_texts')
  /\ pc' = "analyze"
  /\ UNCHANGED << last_post_id, file, request, posts, newest_post, analysis,
                  slept, outcome, counters, runs, loads, history >>

\* line 153: the joined paragraph text; an empty string skips the analysis
Extract ==
  /\ pc = "extract"
  /\ paragraph_texts' = extract_paragraph_text(newest_post.content)
  /\ content' = Join(paragraph_texts')
  /\ IF content' # <<>>
     THEN pc' = "analyze" /\ UNCHANGED << outcome, handled >>
     ELSE /\ pc' = "save"
          /\ outcome' = "empty_content"
          /\ handled' = handled \cup {newest_post.id}
  /\ UNCHANGED << last_post_id, file, request, posts, newest_post, analysis,
                  slept, counters, runs, loads, fetch_ok, run_ok, run_strict, dropped, persisted, inflight >>

\* a slip of line 86: the error verdict is True
analyze_with_llm_failopen ==
  { [could_impact_market |-> TRUE, response |-> ErrorReply] }
  \cup { [could_impact_market |-> StartsWith(r, <<"Y", "e", "s">>), response |-> r] :
         r \in Responses }

\* analyze_with_llm: (False, "Error: ...") when ollama.chat raises
analyze_with_llm_results ==
  { [could_impact_market |-> FALSE, response |-> ErrorReply] }
  \cup { [could_impact_market |-> StartsWith(r, <<"Y", "e", "s">>), response |-> r] :
         r \in Responses }

\* a slip of line 157: the notification does not depend on the verdict
AnalyzeNotifiesAlways ==
  /\ pc = "analyze"
  /\ classified' = classified \cup {newest_post.id}
  /\ \E res \in analyze_with_llm_results :
       /\ analysis' = res
       /\ outcome' = IF res.could_impact_market THEN "positive"
                     ELSE IF res.response = ErrorReply THEN "llm_failed"
                     ELSE "negative"
  /\ pc' = "notify"
  /\ UNCHANGED << last_post_id, file, request, posts, newest_post,
                  paragraph_texts, content, slept, notified, runs, loads, handled,
                  fetch_ok, run_ok, run_strict, dropped, persisted, inflight >>

\* lines 155-163
Analyze ==
  /\ pc = "analyze"
  /\ classified' = classified \cup {newest_post.id}
  /\ \E res \in analyze_with_llm_results :
       /\ analysis' = res
       /\ IF res.could_impact_market
          THEN pc' = "notify" /\ outcome' = "positive" /\ UNCHANGED handled
          ELSE /\ pc' = "save"
               /\ outcome' = IF res.response = ErrorReply
                             THEN "llm_failed" ELSE "negative"
               /\ handled' = handled \cup {newest_post.id}
  /\ UNCHANGED << last_post_id, file, request, posts, newest_post,
                  paragraph_texts, content, slept, notified, runs, loads, fetch_ok,
                  run_ok, run_strict, dropped, persisted, inflight >>

\* a slip of lines 104-105: a transport error skips the rest of the cycle
NotifyFailureSkipsSave ==
  /\ pc = "notify"
  /\ notified' = notified \cup {newest_post.id}
  /\ handled' = handled \cup {newest_post.id}
  /\ \/ outcome' = "notified" /\ pc' = "save" /\ UNCHANGED slept
     \/ outcome' = "notify_failed" /\ GoSleep
  /\ UNCHANGED << last_post_id, file, request, locals, classified,
                  runs, loads, fetch_ok, run_ok, run_strict, dropped, persisted, inflight >>

\* line 159 with send_notification: a transport error is logged, not raised
Notify ==
  /\ pc = "notify"
  /\ notified' = notified \cup {newest_post.id}
  /\ outcome' \in { "notified", "notify_failed" }
  /\ handled' = handled \cup {newest_post.id}
  /\ pc' = "save"
  /\ UNCHANGED << last_post_id, file, request, locals, slept, classified,
                  runs, loads, fetch_ok, run_ok, run_strict, dropped, persisted, inflight >>

\* a slip of lines 108-112: the error of open is caught and logged
SaveOpenSwallowed ==
  /\ pc = "save"
  /\ \/ /\ file' = FileWith(<<>>)
        /\ pc' = "save_write"
        /\ UNCHANGED outcome
     \/ /\ pc' = "assign"
        /\ outcome' = "save_failed"
        /\ UNCHANGED file
  /\ UNCHANGED << last_post_id, request, locals, slept, counters, runs, loads, history >>

\* save_last_post_id, line 110: open(LAST_POST_FILE, "w") truncates the file
SaveOpen ==
  /\ pc = "save"
  /\ \/ /\ file' = FileWith(<<>>)
        /\ pc' = "save_write"
        /\ UNCHANGED outcome
     \/ /\ pc' = "terminated"                  \* open raised OSError
        /\ outcome' = "save_failed"
        /\ UNCHANGED file
  /\ UNCHANGED << last_post_id, request, locals, slept, counters, runs, loads, history >>

\* save_last_post_id, line 111 and the close at the end of the with block
SaveWrite ==
  /\ pc = "save_write"
  /\ \/ /\ file' = FileWith(JsonDump(newest_post.id))
        /\ persisted' = persisted \cup {newest_post.id}
        /\ pc' = "assign"
        /\ UNCHANGED outcome
     \/ /\ \E d \in Prefixes(JsonDump(newest_post.id)) : file' = FileWith(d)
        /\ pc' = "terminated"                  \* write or close raised OSError
        /\ outcome' = "save_failed"
        /\ UNCHANGED persisted
  /\ UNCHANGED << last_post_id, request, locals, slept, counters, runs, loads,
                  fetch_ok, run_ok, run_strict, dropped, handled, inflight >>

\* a slip of line 167: the cursor takes the id of the last post of the list
AssignOldest ==
  /\ pc = "assign"
  /\ last_post_id' = posts[Len(posts)].id
  /\ GoSleep
  /\ UNCHANGED << file, request, locals, outcome, counters, runs, loads, history >>

\* a slip of line 170: the cycle that saved a cursor does not sleep
AssignNoSleep ==
  /\ pc = "assign"
  /\ last_post_id' = newest_post.id
  /\ pc' = "fetch"
  /\ UNCHANGED << file, request, locals, slept, outcome, counters, runs, loads,
                  history >>

\* line 167
Assign ==
  /\ pc = "assign"
  /\ last_post_id' = newest_post.id
  /\ GoSleep
  /\ UNCHANGED << file, request, locals, outcome, counters, runs, loads, history >>

\* a slip of line 129: the cursor is loaded again at the top of every cycle
WakeReloads ==
  /\ pc = "sleep"
  /\ pc' = "fetch"
  /\ slept' = 0
  /\ outcome' = "none"
  /\ posts' = <<>>
  /\ newest_post' = NoPost
  /\ paragraph_texts' = <<>>
  /\ content' = <<>>
  /\ analysis' = NoAnalysis
  /\ last_post_id' = get_last_post_id
  /\ loads' = CountLoad(loads)
  /\ UNCHANGED << file, request, counters, runs, history >>

\* the sleep returns and the loop starts its next cycle; the locals of the
\* cycle that ended are dead (each is assigned again before it is read)
Wake ==
  /\ pc = "sleep"
  /\ pc' = "fetch"
  /\ slept' = 0
  /\ outcome' = "none"
  /\ posts' = <<>>
  /\ newest_post' = NoPost
  /\ paragraph_texts' = <<>>
  /\ content' = <<>>
  /\ analysis' = NoAnalysis
  /\ UNCHANGED << last_post_id, file, request, counters, runs, loads, history >>

\* ------------------------------------------------------ crash and restart
SelectedPcs == { "extract", "analyze", "notify", "save", "save_write" }

\* the process is killed; a kill during the write leaves what reached the disk
Crash ==
  /\ pc \in LoopPcs \cup {"start"}
  /\ pc' = "down"
  /\ IF pc = "save_write"
     THEN \E d \in Prefixes(JsonDump(newest_post.id)) : file' = FileWith(d)
     ELSE UNCHANGED file
  /\ inflight' = IF pc \in SelectedPcs THEN newest_post.id ELSE None
  /\ UNCHANGED << last_post_id, request, locals, slept, outcome, counters,
                  runs, loads, fetch_ok, run_ok, run_strict, dropped, handled, persisted >>

\* the supervisor starts the program again: a new process, empty memory
Restart ==
  /\ pc \in { "down", "terminated" }
  /\ runs < MaxRuns
  /\ runs' = runs + 1
  /\ pc' = "start"
  /\ last_post_id' = None
  /\ request' = NoRequest
  /\ posts' = <<>>
  /\ newest_post' = NoPost
  /\ paragraph_texts' = <<>>
  /\ content' = <<>>
  /\ analysis' = NoAnalysis
  /\ slept' = 0
  /\ outcome' = "none"
  /\ notified' = {}
  /\ classified' = {}
  /\ run_ok' = TRUE
  /\ run_strict' = TRUE
  /\ dropped' = {}
  /\ loads' = 0
  /\ UNCHANGED << file, fetch_ok, handled, persisted, inflight >>

Next ==
  \/ Start
  \/ Fetch
  \/ Select
  \/ Extract
  \/ Analyze
  \/ Notify
  \/ SaveOpen
  \/ SaveWrite
  \/ Assign
  \/ Wake
  \/ Crash
  \/ Restart

Spec == Init /\ [][Next]_vars

\* the steps of the program itself: every call it makes returns and every
\* sleep ends, so the process does not stay at one position for ever
Program ==
  \/ Start
  \/ Fetch
  \/ Select
  \/ Extract
  \/ Analyze
  \/ Notify
  \/ SaveOpen
  \/ SaveWrite
  \/ Assign
  \/ Wake

SpecLive == Init /\ [][Next]_vars /\ WF_vars(Program)

\* ------------------------------------------------------------ properties
\* post a is strictly newer than the post with id b (any post is newer than none)
Newer(a, b) == a # None /\ (b = None \/ CreatedAt(a) > CreatedAt(b))

Complete(f) == f.exists /\ Parses(f.data)
PersistedId(f) == JsonGet(f.data)

\* the state file holds exactly the in-memory cursor
CursorSaved ==
  IF last_post_id = None THEN ~file.exists
  ELSE file = FileWith(JsonDump(last_post_id))

\* the candidate of the cycle is the cursor, in memory and in the file
AdvancedToCandidate ==
  /\ newest_post.id # None
  /\ last_post_id = newest_post.id
  /\ file = FileWith(JsonDump(newest_post.id))

\* positions of a cycle after its classify/notify steps
AfterProcessing == { "save", "save_write", "assign", "sleep", "terminated", "down" }

LoopStep == pc \in LoopPcs /\ pc' \in LoopPcs

\* C1 as stated: in every step of the loop, whatever the fetch returned, the
\* in-memory cursor and the id of the record in the state file are unchanged
\* or replaced by the id of a strictly newer post.
C1_CursorMonotonicAnyFetch ==
  [][ /\ (LoopStep /\ last_post_id' # last_post_id)
           => Newer(last_post_id', last_post_id)
      /\ (Complete(file) /\ Complete(file') /\ file' # file)
           => Newer(PersistedId(file'), PersistedId(file)) ]_vars

\* C1 amended: the cursor changes only at line 167, to the id of the cycle's
\* candidate, and each complete record written to the file holds that id;
\* when the fetch of the cycle returned no post older than the cursor, that
\* id is the id of a post strictly newer than the one the cursor held.
C1_CursorMonotonic ==
  [][ /\ (LoopStep /\ last_post_id' # last_post_id)
           => /\ pc = "assign"
              /\ last_post_id' = newest_post.id
              /\ Honours(posts, last_post_id) => Newer(last_post_id', last_post_id)
      /\ (Complete(file') /\ file' # file)
           => /\ pc = "save_write"
              /\ PersistedId(file') = newest_post.id
              /\ Honours(posts, last_post_id)
                   => Newer(PersistedId(file'), last_post_id) ]_vars

\* a cycle replaced a cursor by a newer one after a fetch that honoured it
C1_Witness ==
  /\ pc = "sleep"
  /\ outcome # "seen"
  /\ Len(posts) = 2
  /\ Honours(posts, request.since_id)
  /\ request.since_id # None
  /\ last_post_id = newest_post.id
  /\ Newer(last_post_id, request.since_id)

\* C2 as stated: in one run, whatever the fetches return, send_notification
\* is attempted at most once for each post id: never for an id it was
\* already attempted for in the run.
C2_NotifyOnceAnyFetch ==
  [][ pc = "notify" /\ pc' = "save" => newest_post.id \notin notified ]_vars

\* C2 amended: in a run in which no fetch returned a post older than the
\* cursor it was issued with, send_notification is attempted at most once
\* for each post id, also when the fetch returns the cursor's post again.
C2_NotifyOnce ==
  [][ (run_ok /\ pc = "notify" /\ pc' = "save") => newest_post.id \notin notified ]_vars

\* the post notified earlier in the run came back as the newest and was skipped
C2_Witness ==
  /\ run_ok
  /\ pc = "sleep"
  /\ outcome = "seen"
  /\ newest_post.id \in notified

\* C3: when the classifier call fails the verdict is False, no notification
\* is attempted in the cycle, the loop goes on to save the candidate's id,
\* and the cycle reaches its wait with the cursor saved and advanced to it.
C3_FailSafeClassification ==
  /\ [][ (pc = "analyze" /\ pc' \in LoopPcs
            /\ analysis'.response = ErrorReply)
         => /\ ~analysis'.could_impact_market
            /\ outcome' = "llm_failed"
            /\ pc' = "save"
            /\ notified' = notified
            /\ newest_post' = newest_post ]_vars
  /\ [](outcome = "llm_failed"
          => /\ ~analysis.could_impact_market
             /\ pc \in AfterProcessing
             /\ pc = "sleep" => AdvancedToCandidate)

\* a cycle whose classifier call failed is at its wait
C3_Witness ==
  /\ outcome = "llm_failed"
  /\ pc = "sleep"
  /\ newest_post.id \in classified
  /\ newest_post.id \notin notified
  /\ AdvancedToCandidate

\* C4: when the joined content of the candidate is empty, neither the
\* classifier nor the notifier is called in the cycle, the loop goes on to
\* save the candidate's id, and the cycle reaches its wait with the cursor
\* saved and advanced to it.
C4_EmptyContentSkip ==
  /\ [][ (pc = "extract" /\ pc' \in LoopPcs
            /\ Join(extract_paragraph_text(newest_post.content)) = <<>>)
         => /\ content' = <<>>
            /\ outcome' = "empty_content"
            /\ pc' = "save"
            /\ UNCHANGED counters ]_vars
  /\ [](outcome = "empty_content"
          => /\ content = <<>>
             /\ pc \in AfterProcessing
             /\ pc = "sleep" => AdvancedToCandidate)

\* a cycle whose candidate had no paragraph text is at its wait
C4_Witness ==
  /\ outcome = "empty_content"
  /\ pc = "sleep"
  /\ newest_post.id \notin classified
  /\ newest_post.id \notin notified
  /\ AdvancedToCandidate

\* C5: a failed fetch gives the empty list: the cycle changes neither the
\* cursor nor the file, extracts, classifies, notifies and saves nothing,
\* does not terminate the process, waits, and the wait leads to a new fetch.
C5_FetchFailure ==
  /\ [][ (pc = "fetch" /\ outcome' = "fetch_failed")
         => /\ posts' = <<>>
            /\ pc' = "sleep"
            /\ slept' = CHECK_INTERVAL
            /\ UNCHANGED << last_post_id, file, newest_post, content, analysis,
                            counters, handled, persisted >> ]_vars
  /\ [][ (pc = "sleep" /\ pc' # "sleep" /\ pc' # "down") => pc' = "fetch" ]_vars
  /\ [](outcome = "fetch_failed" => (pc \in {"sleep", "down"} /\ posts = <<>>))

\* a cycle whose fetch failed is at its wait, the cursor as it was
C5_Witness ==
  /\ outcome = "fetch_failed"
  /\ pc = "sleep"
  /\ last_post_id # None
  /\ last_post_id = request.since_id
  /\ CursorSaved

\* C6 as stated: a failed save is retried: the first failure of a cycle's
\* save does not yet terminate the process.
C6_SaveRetried ==
  [][ (outcome' = "save_failed" /\ outcome # "save_failed") => pc' # "terminated" ]_vars

\* C6 amended: a failed save is not retried: the first failure terminates
\* the process with the in-memory cursor as it was; the loop is at a fetch
\* or a wait only with the in-memory cursor saved in the file; and of the
\* fetch, classifier, notifier and save failures only the save failure
\* terminates the loop.
C6_SaveFailureFatal ==
  /\ [][ (outcome' = "save_failed" /\ outcome # "save_failed")
         => /\ pc \in {"save", "save_write"}
            /\ pc' = "terminated"
            /\ last_post_id' = last_post_id ]_vars
  /\ [][ (pc \in LoopPcs /\ pc' = "terminated") => outcome' = "save_failed" ]_vars
  /\ [](pc \in {"fetch", "sleep"} => CursorSaved)
  /\ [](outcome \in {"fetch_failed", "llm_failed", "notify_failed"}
          => pc # "terminated")

\* the save of a cycle failed in the write and the process is gone
C6_Witness ==
  /\ pc = "terminated"
  /\ outcome = "save_failed"
  /\ last_post_id # None
  /\ last_post_id # newest_post.id
  /\ file.exists
  /\ ~Parses(file.data)

\* C7: after a crash of the process the state file is missing (the old
\* state of a first run) or holds one complete record, the old or the new.
C7_CrashAtomicSave == pc = "down" => (~file.exists \/ Parses(file.data))

\* a step that calls the classifier or the notifier
CallStep ==
  \/ pc = "analyze" /\ pc' \in {"notify", "save"}
  \/ pc = "notify" /\ pc' = "save"

\* C8 as stated: with fetches that honour since_id, a post whose extract,
\* classify and notify steps were over is never classified or notified again.
C8_NoReprocessHandled ==
  [][ (fetch_ok /\ CallStep) => newest_post.id \notin handled ]_vars

\* C8 amended: with fetches that never return a post older than the cursor,
\* a post whose id a completed save wrote to the state file is never
\* classified or notified again, in the same run or after a restart; a post
\* handled but not yet saved when the process died is processed again.
C8_NoReprocessPersisted ==
  [][ (fetch_ok /\ CallStep) => newest_post.id \notin persisted ]_vars

\* after a restart the saved post came back as the newest and was skipped
C8_Witness ==
  /\ fetch_ok
  /\ runs > 1
  /\ pc = "sleep"
  /\ outcome = "seen"
  /\ newest_post.id \in persisted
  /\ newest_post.id \notin classified

\* C9: when the process died with a post selected and its id not yet saved,
\* the state file still holds the cursor that precedes the post (or is still
\* missing), so the restarted process fetches from before the post.
C9_NoPermanentSkip ==
  (pc = "down" /\ inflight # None)
    => \/ ~file.exists
       \/ /\ Parses(file.data)
          /\ PersistedId(file) # inflight
          /\ fetch_ok => Newer(inflight, PersistedId(file))

\* C10: each fetch is issued with since_id = the in-memory cursor; without a
\* cursor created_after is now minus one day, with a cursor created_after is
\* None; no request has neither bound; and while no post has been processed
\* the cursor is absent at every fetch, so the mode is lookback.
C10_FetchWindow ==
  /\ [][ (pc = "fetch" /\ pc' \in LoopPcs)
         => /\ request'.since_id = last_post_id
            /\ last_post_id = None
                 => request'.created_after = [bounded |-> TRUE, days_before_now |-> 1]
            /\ last_post_id # None
                 => request'.created_after = [bounded |-> FALSE, days_before_now |-> 0] ]_vars
  /\ [](request # NoRequest
          => (request.since_id # None) # request.created_after.bounded)
  /\ []((pc = "fetch" /\ handled = {}) => last_post_id = None)

\* a fetch was issued in since-id mode after the cursor was set
C10_Witness ==
  /\ pc = "select"
  /\ request.since_id # None
  /\ request.since_id = last_post_id
  /\ ~request.created_after.bounded
  /\ handled # {}

\* ------------------------------------------------- the cursor store alone
\* A caller that only uses the cursor store: it calls save_last_post_id
\* with any id, the save runs as in main (SaveOpen, SaveWrite), and between
\* two saves it may call get_last_post_id.
InitStore ==
  /\ pc = "store"
  /\ last_post_id = None
  /\ file = NoFile
  /\ request = NoRequest
  /\ posts = <<>>
  /\ newest_post = NoPost
  /\ paragraph_texts = <<>>
  /\ content = <<>>
  /\ analysis = NoAnalysis
  /\ slept = 0
  /\ outcome = "none"
  /\ notified = {}
  /\ classified = {}
  /\ runs = 1
  /\ loads = 0
  /\ fetch_ok = TRUE
  /\ run_ok = TRUE
  /\ run_strict = TRUE
  /\ dropped = {}
  /\ handled = {}
  /\ persisted = {}
  /\ inflight = None

\* save_last_post_id(post_id) is called; newest_post holds the argument
StoreCall ==
  /\ pc = "store"
  /\ \E id \in PostIds : newest_post' = Post(id)
  /\ pc' = "save"
  /\ UNCHANGED << last_post_id, file, request, posts, paragraph_texts, content,
                  analysis, slept, outcome, counters, runs, loads, history >>

\* save_last_post_id returned
StoreReturn ==
  /\ pc = "assign"
  /\ pc' = "store"
  /\ UNCHANGED << last_post_id, file, request, locals, slept, outcome,
                  counters, runs, loads, history >>

\* get_last_post_id() is called and returns
StoreLoad ==
  /\ pc = "store"
  /\ ~get_last_post_id_raises
  /\ last_post_id' = get_last_post_id
  /\ loads' = CountLoad(loads)
  /\ UNCHANGED << pc, file, request, locals, slept, outcome, counters, runs,
                  history >>

NextStore ==
  \/ StoreCall
  \/ SaveOpen
  \/ SaveWrite
  \/ StoreReturn
  \/ StoreLoad

SpecStore == InitStore /\ [][NextStore]_vars

\* C11: before any save there is no state file and the load returns None;
\* after any sequence of successful saves the load does not raise and
\* returns the id of the last save, and the file holds one record only (a
\* save of the id the file already holds leaves the same file).
C11_SingleSlotStore ==
  /\ [](pc = "store"
          => IF persisted = {}
             THEN ~file.exists /\ ~get_last_post_id_raises
                    /\ get_last_post_id = None
             ELSE /\ file.exists
                  /\ ~get_last_post_id_raises
                  /\ get_last_post_id = newest_post.id
                  /\ Len(file.data) = 5)
  /\ [][ (pc = "store" /\ pc' = "store")
         => last_post_id' = IF persisted = {} THEN None ELSE newest_post.id ]_vars
  /\ [][ (pc = "save_write" /\ pc' = "assign" /\ newest_post.id \in persisted
            /\ last_post_id = newest_post.id)
         => get_last_post_id' = last_post_id ]_vars

\* two different ids were saved and the load returned the second
C11_Witness ==
  /\ pc = "store"
  /\ Cardinality(persisted) >= 2
  /\ last_post_id = newest_post.id
  /\ last_post_id # None

\* ---------------------------------------------------- the extractor alone
\* sequences over a set, up to a length
RECURSIVE SeqsUpTo(_, _)
SeqsUpTo(S, n) ==
  IF n = 0 THEN { <<>> }
  ELSE LET shorter == SeqsUpTo(S, n - 1)
       IN  shorter \cup { Append(l, x) : l \in { m \in shorter : Len(m) = n - 1 },
                                         x \in S }

Texts == SeqsUpTo({Space, "a"}, MaxText)
\* paragraph blocks of any text, and one block that is not a paragraph
Elems == { Elem("p", text) : text \in Texts } \cup { Elem("div", <<"a">>) }
Markups == SeqsUpTo(Elems, MaxElems)

\* the loop is at line 153 with a post of any markup
InitExtract ==
  /\ pc = "extract"
  /\ last_post_id = None
  /\ file = NoFile
  /\ request = RequestFor(None)
  /\ \E m \in Markups :
       /\ newest_post = [id |-> 1, created_at |-> CreatedAt(1), content |-> m]
       /\ posts = << newest_post >>
  /\ paragraph_texts = <<>>
  /\ content = <<>>
  /\ analysis = NoAnalysis
  /\ slept = 0
  /\ outcome = "new_post"
  /\ notified = {}
  /\ classified = {}
  /\ runs = 1
  /\ loads = 0
  /\ fetch_ok = TRUE
  /\ run_ok = TRUE
  /\ run_strict = TRUE
  /\ dropped = {}
  /\ handled = {}
  /\ persisted = {}
  /\ inflight = None

SpecExtract == InitExtract /\ [][Extract]_vars

Whitespace == {Space, Newline}

\* t without its leading and trailing whitespace, stated on the positions
Trimmed(t) ==
  LET keep == { i \in 1..Len(t) : t[i] \notin Whitespace }
  IN  IF keep = {} THEN <<>>
      ELSE LET lo == CHOOSE i \in keep : \A j \in keep : i <= j
               hi == CHOOSE i \in keep : \A j \in keep : i >= j
           IN  SubSeq(t, lo, hi)

\* positions of the paragraph blocks of m whose trimmed text is not empty
KeptPositions(m) ==
  { i \in 1..Len(m) : m[i].tag = "p" /\ Trimmed(m[i].text) # <<>> }

\* number of positions of K up to i
Rank(K, i) == Cardinality({ k \in K : k <= i })

\* C12: the list returned for a markup holds, in document order, the trimmed
\* text of every paragraph block whose trimmed text is not empty and nothing
\* else: no empty string, at most one entry per paragraph block, and the
\* empty list for a markup without paragraph blocks.
C12_ExtractParagraphs ==
  pc # "extract"
    => LET m == newest_post.content
           K == KeptPositions(m)
       IN  /\ Len(paragraph_texts) = Cardinality(K)
           /\ \A i \in K : paragraph_texts[Rank(K, i)] = Trimmed(m[i].text)
           /\ \A j \in 1..Len(paragraph_texts) : paragraph_texts[j] # <<>>
           /\ Len(paragraph_texts)
                <= Cardinality({ i \in 1..Len(m) : m[i].tag = "p" })
           /\ (\A i \in 1..Len(m) : m[i].tag # "p") => paragraph_texts = <<>>
           /\ content = Join(paragraph_texts)

\* an empty paragraph between two kept ones was dropped and the texts trimmed
C12_Witness ==
  /\ pc # "extract"
  /\ Len(newest_post.content) = 3
  /\ \A i \in 1..3 : newest_post.content[i].tag = "p"
  /\ newest_post.content[1].text # Trimmed(newest_post.content[1].text)
  /\ Trimmed(newest_post.content[2].text) = <<>>
  /\ Len(paragraph_texts) = 2

\* ------------------------------------------------- properties of the loop
\* p is a post of the list and none of the list is newer
IsLatest(p, ps) ==
  /\ \E i \in 1..Len(ps) : ps[i] = p
  /\ \A i \in 1..Len(ps) : ps[i].created_at <= p.created_at

\* C13: the candidate of a cycle is the post of the fetch result with the
\* latest created_at; it stays the candidate until the wait, and it is the
\* only post the cycle classifies, notifies, counts as handled, writes to
\* the state file or assigns to the cursor.
C13_SelectNewestOnly ==
  [][ LoopStep
      => /\ pc = "select" => IsLatest(newest_post', posts)
         /\ pc \in SelectedPcs \cup {"assign"}
              => (newest_post' = newest_post /\ IsLatest(newest_post, posts))
         /\ pc = "extract"
              => paragraph_texts' = extract_paragraph_text(newest_post.content)
         /\ classified' \subseteq classified \cup {newest_post.id}
         /\ notified' \subseteq notified \cup {newest_post.id}
         /\ handled' \subseteq handled \cup {newest_post.id}
         /\ last_post_id' # last_post_id => last_post_id' = newest_post.id
         /\ (file' # file /\ Complete(file'))
              => PersistedId(file') = newest_post.id ]_vars

\* the fetch returned two posts; the newer was classified and became the
\* cursor, the older was left alone
C13_Witness ==
  /\ pc = "sleep"
  /\ Len(posts) = 2
  /\ newest_post = posts[1]
  /\ posts[2].created_at < posts[1].created_at
  /\ newest_post.id \in classified
  /\ posts[2].id \notin classified \cup handled
  /\ AdvancedToCandidate

\* what a cycle that processed its candidate logged last
ProcessedOutcomes ==
  { "empty_content", "llm_failed", "negative", "notified", "notify_failed" }

\* C14: a cycle whose candidate is not the cursor extracts, classifies and
\* notifies without touching the cursor, then saves the candidate's id and
\* assigns it, then waits, whatever the outcome of the three steps; none of
\* the three steps ends the process, and every such cycle that is at its
\* wait has the cursor saved and set to the candidate's id.
C14_PersistAfterProcessing ==
  /\ [][ LoopStep
         => /\ pc = "extract" => pc' \in {"analyze", "save"}
            /\ pc = "analyze" => pc' \in {"notify", "save"}
            /\ pc = "notify" => pc' = "save"
            /\ pc = "save" => pc' = "save_write"
            /\ pc = "save_write"
                 => (pc' = "assign" /\ file' = FileWith(JsonDump(newest_post.id)))
            /\ pc = "assign"
                 => (pc' = "sleep" /\ last_post_id' = newest_post.id)
            /\ pc \in {"select", "extract", "analyze", "notify"}
                 => UNCHANGED << file, last_post_id >> ]_vars
  /\ [][ (pc \in {"extract", "analyze", "notify"}) => pc' # "terminated" ]_vars
  /\ [](pc \in {"extract", "analyze", "notify", "save"}
          => (newest_post.id # last_post_id /\ CursorSaved))
  /\ []((pc = "sleep" /\ outcome \in ProcessedOutcomes) => AdvancedToCandidate)

\* the notifier failed and the cycle is at its wait with the cursor advanced
C14_Witness ==
  /\ pc = "sleep"
  /\ outcome = "notify_failed"
  /\ newest_post.id \in notified
  /\ AdvancedToCandidate

\* the step that calls send_notification
NotifyStep == pc = "notify" /\ pc' = "save"

\* C15: send_notification is called only for the candidate of the cycle,
\* after the classifier was called on its joined content and its reply
\* started with "Yes"; a cycle with a negative verdict, a classifier
\* failure, empty content, a candidate that is the cursor, or no post calls
\* it not at all, and no cycle calls it twice.
C15_NotificationGating ==
  /\ [](pc = "notify"
          => /\ analysis.could_impact_market
             /\ StartsWith(analysis.response, <<"Y", "e", "s">>)
             /\ outcome = "positive"
             /\ newest_post.id \in classified
             /\ content # <<>>
             /\ content = Join(extract_paragraph_text(newest_post.content)))
  /\ [][ (LoopStep /\ ~NotifyStep) => notified' = notified ]_vars
  /\ [][ NotifyStep => notified' = notified \cup {newest_post.id} ]_vars
  /\ [](outcome \in { "negative", "llm_failed", "empty_content", "seen",
                      "no_posts", "fetch_failed" }
          => (pc # "notify" /\ ~analysis.could_impact_market))
  /\ [](outcome \in {"notified", "notify_failed"} => pc \in AfterProcessing)

\* a notification was attempted after a reply that starts with "Yes"
C15_Witness ==
  /\ pc = "save"
  /\ outcome = "notified"
  /\ analysis.could_impact_market
  /\ newest_post.id \in notified

\* the newest post of the list is the post of the cursor
NewestIsCursor(ps) ==
  \E i \in 1..Len(ps) : IsLatest(ps[i], ps) /\ ps[i].id = last_post_id

\* C16: when the newest post of the fetch result is the post of the cursor,
\* the cycle goes from the selection to its wait: nothing is extracted,
\* classified, notified or saved, and the in-memory cursor and the state
\* file stay as they were.
C16_DedupNoOp ==
  /\ [][ (pc = "select" /\ LoopStep /\ NewestIsCursor(posts))
         => /\ pc' = "sleep"
            /\ slept' = CHECK_INTERVAL
            /\ outcome' = "seen"
            /\ UNCHANGED << last_post_id, file, paragraph_texts, content,
                            analysis, counters, handled, persisted >> ]_vars
  /\ [](outcome = "seen"
          => /\ pc \in {"sleep", "down"}
             /\ newest_post.id = last_post_id
             /\ paragraph_texts = <<>>
             /\ CursorSaved)

\* the cursor's post came back as the newest and the cycle is at its wait
C16_Witness ==
  /\ pc = "sleep"
  /\ outcome = "seen"
  /\ last_post_id # None
  /\ newest_post.id = last_post_id
  /\ Len(posts) = 2

\* C17: a cycle ends in the sleep of CHECK_INTERVAL seconds on every branch
\* but a failed save: a fetch starts only after the start of the process or
\* after a sleep, a sleep is followed by a fetch and by nothing else, the
\* process ends only in the save, and a process whose calls return is again
\* and again at a sleep (unless it was killed or its save failed) and no sleep
\* lasts for ever.
C17_WaitOnEveryBranch ==
  /\ [](pc = "sleep" => slept = 300)
  /\ [](pc \in LoopPcs \ {"sleep"} => slept = 0)
  /\ [][ LoopStep
         => /\ pc' = "fetch" => pc = "sleep"
            /\ pc' = "sleep" => pc \in {"fetch", "select", "assign"}
            /\ pc = "sleep" => pc' = "fetch"
            /\ pc = "fetch" => pc' \in {"sleep", "select"}
            /\ pc = "select" => pc' \in {"sleep", "extract"}
            /\ pc = "assign" => pc' = "sleep" ]_vars
  /\ [][ (pc \in LoopPcs /\ pc' = "terminated")
         => pc \in {"save", "save_write"} ]_vars
  /\ []<>(pc \in {"sleep", "start", "terminated", "down"})
  /\ []<>(pc # "sleep")

\* a fetch started after the sleep of a cycle that notified
C17_Witness ==
  /\ pc = "fetch"
  /\ slept = 0
  /\ request # NoRequest
  /\ notified # {}
  /\ CursorSaved

\* ---------------------------------------------------------------- C18
\* C18: whenever the loop is at a fetch or a wait, the state file can be
\* loaded and the cursor it holds is the in-memory cursor (both absent while
\* there is no file); inside the loop the in-memory cursor changes only at the
\* assignment that follows a save which returned, to the id that save wrote;
\* and get_last_post_id is called once per run, at startup, never in the loop.
C18_CursorMirrorsFile ==
  /\ [](pc \in {"fetch", "sleep"}
          => /\ ~get_last_post_id_raises
             /\ last_post_id = get_last_post_id
             /\ (last_post_id = None => ~file.exists))
  /\ [][ (LoopStep /\ last_post_id' # last_post_id)
         => /\ pc = "assign"
            /\ file = FileWith(JsonDump(newest_post.id))
            /\ newest_post.id \in persisted
            /\ last_post_id' = newest_post.id
            /\ file' = file ]_vars
  /\ [][ (pc' = "assign" /\ pc # "assign") => pc = "save_write" ]_vars
  /\ [](pc \in LoopPcs => loads = 1)
  /\ [](loads <= 1)
  /\ [][ loads' > loads => pc = "start" ]_vars

\* a second run loaded the cursor of the first, advanced it and is at its wait
C18_Witness ==
  /\ pc = "sleep"
  /\ runs > 1
  /\ loads = 1
  /\ last_post_id \in persisted
  /\ outcome \notin {"seen", "no_posts", "fetch_failed"}
  /\ CursorSaved
  /\ \E id \in persisted : id # last_post_id

\* ---------------------------------------------------------------- C19
\* the extract, classify and notify steps of the cycle
ProcessStep ==
  \/ pc = "extract" /\ pc' \in {"analyze", "save"}
  \/ CallStep

\* C19: in a run whose since_id fetches returned only posts strictly after the
\* cursor, a post that a fetch returned without its being the newest of that
\* fetch is never selected, extracted, classified or notified, and no post is
\* classified twice in the run.
C19_DroppedNeverProcessed ==
  /\ [][ (run_strict /\ ProcessStep) => newest_post.id \notin dropped ]_vars
  /\ [](run_strict /\ pc \in SelectedPcs => newest_post.id \notin dropped)
  /\ [](run_strict => dropped \cap (classified \cup notified) = {})
  /\ [][ (run_strict /\ pc = "analyze" /\ pc' \in {"notify", "save"})
         => newest_post.id \notin classified ]_vars

\* two cycles of one run classified a post each while an older post that came
\* with the first stays dropped
C19_Witness ==
  /\ run_strict
  /\ pc = "sleep"
  /\ dropped # {}
  /\ \E a, b \in classified : a # b
  /\ \A d \in dropped : d < last_post_id

\* ---------------------------------------------------------------- C20
\* The program started on a state file in any condition: missing, holding a
\* record, holding what an interrupted write left, or holding a record that
\* has no last_post_id.
RecordWithoutCursor == << "{", "updated", ":", 1, "}" >>

StartFiles ==
  { NoFile, FileWith(JsonDump(1)), FileWith(RecordWithoutCursor) }
  \cup { FileWith(d) : d \in Prefixes(JsonDump(1)) }

InitStartup ==
  /\ pc = "start"
  /\ last_post_id = None
  /\ file \in StartFiles
  /\ request = NoRequest
  /\ posts = <<>>
  /\ newest_post = NoPost
  /\ paragraph_texts = <<>>
  /\ content = <<>>
  /\ analysis = NoAnalysis
  /\ slept = 0
  /\ outcome = "none"
  /\ notified = {}
  /\ classified = {}
  /\ runs = 1
  /\ loads = 0
  /\ fetch_ok = TRUE
  /\ run_ok = TRUE
  /\ run_strict = TRUE
  /\ dropped = {}
  /\ handled = {}
  /\ persisted = {}
  /\ inflight = None

SpecStartup == InitStartup /\ [][Next]_vars

\* C20: a start on a state file that exists but holds no complete record ends
\* the process at the load, before any fetch: nothing is requested, classified
\* or notified in that run and the file is left as it was; the loop is entered
\* only when the file is missing or loads, with the cursor the file holds, and
\* the cursor is absent only for a missing file or a record that has no
\* last_post_id.
C20_CorruptStateFileFatal ==
  /\ [][ (pc = "start" /\ get_last_post_id_raises)
         => /\ pc' \in {"terminated", "down"}
            /\ pc' = "terminated" => outcome' \in {"load_failed", "pull_failed"}
            /\ file' = file
            /\ last_post_id' = None
            /\ request' = NoRequest
            /\ classified' = {} /\ notified' = {} ]_vars
  /\ [](outcome = "load_failed"
          => /\ pc = "terminated"
             /\ get_last_post_id_raises
             /\ last_post_id = None
             /\ request = NoRequest
             /\ classified = {} /\ notified = {})
  /\ [][ (pc = "start" /\ pc' = "fetch")
         => /\ ~get_last_post_id_raises
            /\ last_post_id' = get_last_post_id
            /\ last_post_id' = None
                 => \/ ~file.exists
                    \/ Parses(file.data) /\ file.data[2] # "last_post_id" ]_vars
  /\ [](pc \in LoopPcs /\ request = NoRequest => ~get_last_post_id_raises)

\* a run died while it wrote the cursor and the next run stopped at the load
C20_Witness ==
  /\ pc = "terminated"
  /\ outcome = "load_failed"
  /\ runs > 1
  /\ persisted # {}
  /\ file.exists /\ ~Parses(file.data)
  /\ request = NoRequest

\* a first run on a record without last_post_id starts with no cursor
C20_WitnessNoCursor ==
  /\ pc = "fetch"
  /\ runs = 1
  /\ request = NoRequest
  /\ last_post_id = None
  /\ file = FileWith(RecordWithoutCursor)
====
